---------------------------- MODULE Spec2Model ----------------------------
(***************************************************************************)
(* A model of the three scripts under experiments/:                        *)
(*                                                                         *)
(*   extract_tdb_metrics.py      the glob extractor                        *)
(*   extractor.py                the manifest extractor                    *)
(*   summarize_invalid_reasons.py the reason tallier                       *)
(*                                                                         *)
(* Every script is one sequential pass.  The variable prog says which      *)
(* script runs, pc where it is.  Python strings are sequences of           *)
(* one-character strings, so that startswith, split, strip, int and        *)
(* sorted are computed character by character, as the interpreter does.    *)
(***************************************************************************)
EXTENDS Integers, Sequences, FiniteSets, TLC

VARIABLES
    prog,           \* the script that runs
    pc,             \* its control point
    fs,             \* the files on disk the script has looked at
    tdb_files,      \* glob extractor: sorted(glob.glob(TDB_GLOB))
    manifest_files, \* manifest extractor: the manifests, each a list of rows
    pos,            \* the loop position
    out,            \* the lines of the output file
    calls,          \* the databases connected to, with what became of each
    reader,         \* tallier: the rows of the input CSV
    counts,         \* tallier: the Counter, in insertion order
    arg,            \* the arguments of the function called on its own
    ret             \* what that call returned

vars == <<prog, pc, fs, tdb_files, manifest_files, pos, out, calls, reader,
          counts, arg, ret>>

-----------------------------------------------------------------------------
(* Bounds of the model.                                                    *)

MaxFiles == 2

MaxRows == 1

MaxTokens == 5

MaxInputRows == 3

MaxTableRows == 2

-----------------------------------------------------------------------------
(* Python values.  A value is None, an integer, a string or the float an   *)
(* SQL AVG returns, kept exact as <<sum, count>>.                          *)

None == [k |-> "None"]

IntV(n) == [k |-> "int", v |-> n]

StrV(s) == [k |-> "str", v |-> s]

FloatV(sum, n) == [k |-> "float", v |-> <<sum, n>>]

IsNone(x) == x.k = "None"

-----------------------------------------------------------------------------
(* Strings.                                                                *)

Min(a, b) == IF a < b THEN a ELSE b

\* s.startswith(p)
StartsWith(s, p) == Len(s) >= Len(p) /\ SubSeq(s, 1, Len(p)) = p

\* s.endswith(p)
EndsWith(s, p) ==
    Len(s) >= Len(p) /\ SubSeq(s, Len(s) - Len(p) + 1, Len(s)) = p

\* s[n:]
DropFirst(s, n) == SubSeq(s, n + 1, Len(s))

\* The characters str.strip() removes.
Whitespace == {" ", "\t", "\n", "\r"}

RECURSIVE LStrip(_)
LStrip(s) ==
    IF s # <<>> /\ Head(s) \in Whitespace THEN LStrip(Tail(s)) ELSE s

RECURSIVE RStrip(_)
RStrip(s) ==
    IF s # <<>> /\ s[Len(s)] \in Whitespace
    THEN RStrip(SubSeq(s, 1, Len(s) - 1))
    ELSE s

\* s.strip()
Strip(s) == RStrip(LStrip(s))

\* s.split(sep) for a one-character sep: the pieces between the separators,
\* empty pieces kept.
RECURSIVE SplitAcc(_, _, _)
SplitAcc(s, sep, cur) ==
    IF s = <<>> THEN <<cur>>
    ELSE IF Head(s) = sep THEN <<cur>> \o SplitAcc(Tail(s), sep, <<>>)
    ELSE SplitAcc(Tail(s), sep, Append(cur, Head(s)))

Split(s, sep) == SplitAcc(s, sep, <<>>)

\* sep.join(parts)
RECURSIVE Join(_, _)
Join(parts, sep) ==
    IF parts = <<>> THEN <<>>
    ELSE IF Len(parts) = 1 THEN parts[1]
    ELSE parts[1] \o sep \o Join(Tail(parts), sep)

Digits == <<"0", "1", "2", "3", "4", "5", "6", "7", "8", "9">>

IsDigit(c) == \E d \in 1..10 : Digits[d] = c

DigitVal(c) == (CHOOSE d \in 1..10 : Digits[d] = c) - 1

RECURSIVE DecimalValue(_)
DecimalValue(s) ==
    IF s = <<>> THEN 0
    ELSE 10 * DecimalValue(SubSeq(s, 1, Len(s) - 1)) + DigitVal(s[Len(s)])

\* int(s): surrounding whitespace is dropped, one sign is allowed, and what
\* is left must be one or more decimal digits; anything else is ValueError.
IntBody(s) ==
    LET t == Strip(s)
    IN  IF t # <<>> /\ Head(t) \in {"+", "-"} THEN Tail(t) ELSE t

IntRaises(s) ==
    LET b == IntBody(s)
    IN  b = <<>> \/ \E j \in 1..Len(b) : ~IsDigit(b[j])

IntOf(s) ==
    LET t == Strip(s)
    IN  IF t # <<>> /\ Head(t) = "-"
        THEN 0 - DecimalValue(IntBody(s))
        ELSE DecimalValue(IntBody(s))

\* str(n) for n >= 0
RECURSIVE DecimalText(_)
DecimalText(n) ==
    IF n < 10 THEN <<Digits[n + 1]>>
    ELSE DecimalText(n \div 10) \o <<Digits[(n % 10) + 1]>>

\* The characters of the model in code-point order, for the comparison of
\* strings that sorted() makes.
CodePoints ==
    <<" ", "-", ".", "/", "0", "1", "2", "3", "4", "5", "6", "7", "8", "9",
      "<", ">", "A", "B", "D", "E", "I", "L", "M", "R", "S", "T", "W", "_",
      "a", "b", "c", "d", "e", "h", "i", "j", "l", "m", "n", "o", "p", "r",
      "s", "t", "x", "y">>

Ord(c) == CHOOSE j \in 1..Len(CodePoints) : CodePoints[j] = c

\* a < b on strings
RECURSIVE StrLess(_, _)
StrLess(a, b) ==
    IF b = <<>> THEN FALSE
    ELSE IF a = <<>> THEN TRUE
    ELSE IF Head(a) = Head(b) THEN StrLess(Tail(a), Tail(b))
    ELSE Ord(Head(a)) < Ord(Head(b))

\* sorted(S) for a set of distinct strings
\* The paths in descending order: what main would go through were the
\* result of glob sorted the other way round.
RECURSIVE Descending(_)
Descending(S) ==
    IF S = {} THEN <<>>
    ELSE LET m == CHOOSE a \in S : \A b \in S \ {a} : StrLess(b, a)
         IN  <<m>> \o Descending(S \ {m})

RECURSIVE Sorted(_)
Sorted(S) ==
    IF S = {} THEN <<>>
    ELSE LET m == CHOOSE a \in S : \A b \in S \ {a} : StrLess(a, b)
         IN  <<m>> \o Sorted(S \ {m})

\* os.path.basename(path): what follows the last "/"
RECURSIVE Basename(_)
Basename(path) ==
    IF \E j \in 1..Len(path) : path[j] = "/"
    THEN Basename(Tail(path))
    ELSE path

\* Path(name).stem: the last path component without its last suffix; a
\* leading dot, or a trailing one, starts no suffix.
Stem(name) ==
    LET base == Basename(name)
        dots == {j \in 2..(Len(base) - 1) : base[j] = "."}
    IN  IF dots = {} THEN base
        ELSE SubSeq(base, 1, (CHOOSE j \in dots : \A h \in dots : h <= j) - 1)

-----------------------------------------------------------------------------
(* SQLite, as far as the scripts use it.                                   *)
(*                                                                         *)
(* What a path holds is a record: kind "dir" (sqlite3.connect raises       *)
(* OperationalError: unable to open database file), kind "garbage" (the    *)
(* connection opens, every statement raises DatabaseError: file is not a   *)
(* database) or kind "db" with its tables.  A table has its columns in     *)
(* declared order and its rows.  A call's outcome is [exc, val]: exc is    *)
(* "" or the name of the sqlite3 exception it raises.                      *)

Returns(v) == [exc |-> "", val |-> v]

Raises(e) == [exc |-> e, val |-> None]

NoTable == [cols |-> <<>>, rows |-> <<>>]

HasTable(conn, t) == conn.kind = "db" /\ t \in DOMAIN conn.tables

TableOf(conn, t) == IF HasTable(conn, t) THEN conn.tables[t] ELSE NoTable

\* Column names that SQL text can name only inside quotes.
QuotedNames == {"Avg BW"}

\* The values of the column called name, NULLs dropped as the aggregates
\* drop them.
ColumnValues(table, name) ==
    LET j == CHOOSE c \in 1..Len(table.cols) : table.cols[c] = name
    IN  SelectSeq([r \in 1..Len(table.rows) |-> table.rows[r][j]],
                  LAMBDA x : ~IsNone(x))

RECURSIVE SumOf(_)
SumOf(xs) == IF xs = <<>> THEN 0 ELSE Head(xs).v + SumOf(Tail(xs))

\* AVG(col): NULL over no value
SqlAvg(xs) == IF xs = <<>> THEN None ELSE FloatV(SumOf(xs), Len(xs))

\* MAX(col): NULL over no value
SqlMax(xs) ==
    IF xs = <<>> THEN None
    ELSE xs[CHOOSE j \in 1..Len(xs) : \A h \in 1..Len(xs) : xs[h].v <= xs[j].v]

LowerCase == <<"a", "d", "e", "i", "r", "t", "w">>

UpperCase == <<"A", "D", "E", "I", "R", "T", "W">>

Upper(s) ==
    [j \in 1..Len(s) |->
        IF \E c \in 1..Len(LowerCase) : LowerCase[c] = s[j]
        THEN UpperCase[CHOOSE c \in 1..Len(LowerCase) : LowerCase[c] = s[j]]
        ELSE s[j]]

\* x LIKE 'prefix%': prefix match, letters compared without case; NULL
\* matches nothing.
Like(x, prefix) == ~IsNone(x) /\ StartsWith(Upper(x.v), Upper(prefix))

\* x IN (...): exact match
In(x, choices) == ~IsNone(x) /\ x.v \in choices

\* The WHERE clause w on one cell of the Command column.
Matches(w, x) ==
    CASE w.op = "LIKE" -> Like(x, w.arg)
      [] w.op = "IN" -> In(x, w.arg)
      [] OTHER -> TRUE

NoWhere == [op |-> "", arg |-> <<>>]

\* cur.execute of "SELECT <agg>(<col>) FROM <table> [WHERE Command ...]"
\* followed by cur.fetchone()[0].  An aggregate query always has one row.
Select(conn, agg, col, table, w) ==
    IF conn.kind = "garbage" THEN Raises("DatabaseError")
    ELSE IF ~HasTable(conn, table) THEN Raises("OperationalError")
    ELSE LET t == conn.tables[table]
             named == {t.cols[c] : c \in 1..Len(t.cols)}
             hit == SelectSeq(
                 t.rows,
                 LAMBDA r : Matches(w,
                     r[CHOOSE c \in 1..Len(t.cols) : t.cols[c] = "Command"]))
         IN  IF col # "*" /\ (col \notin named \/ col \in QuotedNames)
             THEN Raises("OperationalError")
             ELSE IF w.op # "" /\ "Command" \notin named
             THEN Raises("OperationalError")
             ELSE LET rows == IF w.op = "" THEN t.rows ELSE hit
                      kept == [cols |-> t.cols, rows |-> rows]
                  IN  CASE agg = "COUNT" -> Returns(IntV(Len(rows)))
                        [] agg = "AVG" ->
                            Returns(SqlAvg(ColumnValues(kept, col)))
                        [] agg = "MAX" ->
                            Returns(SqlMax(ColumnValues(kept, col)))

\* cur.execute("PRAGMA table_info(t)"): one row per column, none for a table
\* that does not exist; [row[1] for row in ...] are the column names.
TableInfo(conn, t) ==
    IF conn.kind = "garbage" THEN Raises("DatabaseError")
    ELSE Returns(TableOf(conn, t).cols)

-----------------------------------------------------------------------------
(* The databases the scripts are run on.                                   *)

DRAMSys_ == <<"D", "R", "A", "M", "S", "y", "s", "_">>

DotTdb == <<".", "t", "d", "b">>

READ == <<"R", "E", "A", "D">>

WRITE == <<"W", "R", "I", "T", "E">>

\* The tables of a run database as the simulator writes them.
SampleTable(t) ==
    CASE t = "Bandwidth" ->
            [cols |-> <<"Time", "AverageBandwidth">>,
             rows |-> <<<<IntV(1), IntV(4)>>, <<IntV(2), IntV(6)>>>>]
      [] t = "Power" ->
            [cols |-> <<"time", "AveragePower">>,
             rows |-> <<<<IntV(1), IntV(3)>>>>]
      [] t = "BufferDepth" ->
            [cols |-> <<"Time", "BufferNumber", "AverageBufferDepth">>,
             rows |-> <<>>]
      [] t = "Transactions" ->
            [cols |-> <<"ID", "Command">>,
             rows |-> <<<<IntV(1), StrV(READ)>>, <<IntV(2), StrV(WRITE)>>,
                        <<IntV(3), StrV(<<"r", "e", "a", "d">>)>>>>]
      [] t = "GeneralInfo" ->
            [cols |-> <<"NumberOfRanks", "clk", "UnitOfTime", "Traces">>,
             rows |-> <<<<IntV(1), IntV(2), StrV(<<"p", "s">>), None>>>>]

Database(tables) == [kind |-> "db", tables |-> tables]

\* A database holding the sample tables named in S.
SampleDb(S) == Database([t \in S |-> SampleTable(t)])

GlobTables == {"Bandwidth", "Power", "BufferDepth", "Transactions"}

\* What a matched path of nonzero size can hold: a directory, a file that
\* is no database, a database with all four tables, with none, with all
\* but one, with only one.
GlobContents ==
    {[kind |-> "dir"], [kind |-> "garbage"], SampleDb(GlobTables),
     SampleDb({})}
        \cup {SampleDb(GlobTables \ {t}) : t \in GlobTables}
        \cup {SampleDb({t}) : t \in GlobTables}

\* A file: its size and what it holds.  A file of size 0 is, to SQLite, a
\* database without tables.
FileStates ==
    {[size |-> 0, content |-> SampleDb({})]}
        \cup {[size |-> 4096, content |-> c] : c \in GlobContents}

Text(tokens) == Join(tokens, <<"_">>)

tier_ == <<"t", "i", "e", "r">>

lp4 == <<"l", "p", "4">>

idle == <<"i", "d", "l", "e">>

id42 == <<"i", "d", "4", "2">>

id7 == <<"i", "d", "7">>

ch1 == <<"c", "h", "1">>

chx == <<"c", "h", "x">>

Dir == <<"d", "/">>

\* The paths the glob can match: two that follow the naming convention, one
\* with another prefix, one with another extension.
GlobPaths ==
    {Dir \o DRAMSys_ \o Text(<<tier_, lp4, id42, <<"x">>, ch1>>) \o DotTdb,
     Dir \o DRAMSys_ \o Text(<<tier_, lp4, id7, <<"x">>>>) \o DotTdb,
     Dir \o <<"d", "r", "a", "m", "s", "y", "s", "_">>
         \o Text(<<tier_, lp4, id42, <<"x">>, ch1>>) \o DotTdb,
     Dir \o DRAMSys_ \o Text(<<tier_, lp4, id42, <<"x">>, ch1>>)
         \o <<".", "d", "b">>}

-----------------------------------------------------------------------------
(* extract_tdb_metrics.py: the glob extractor.                             *)

\* except sqlite3.Error: OperationalError and DatabaseError are both
\* subclasses of it.
SqliteError == {"OperationalError", "DatabaseError"}

get_numeric_agg(conn, table_name) ==
    LET info == TableInfo(conn, table_name)
        cols == info.val
        value_col == cols[Len(cols)]
        avg == Select(conn, "AVG", value_col, table_name, NoWhere)
        max == Select(conn, "MAX", value_col, table_name, NoWhere)
    IN  IF info.exc \in SqliteError THEN Returns(<<None, None>>)
        ELSE IF cols = <<>> THEN Returns(<<None, None>>)
        ELSE IF avg.exc \in SqliteError \/ max.exc \in SqliteError
        THEN Returns(<<None, None>>)
        ELSE Returns(<<avg.val, max.val>>)

get_transaction_count(conn) ==
    LET row == Select(conn, "COUNT", "*", "Transactions", NoWhere)
    IN  IF row.exc \in SqliteError THEN None ELSE row.val

\* The first part that starts with "id", or 0: where the loop over parts
\* breaks.
FirstIdPart(parts) ==
    LET ids == {j \in 1..Len(parts) : StartsWith(parts[j], <<"i", "d">>)}
    IN  IF ids = {} THEN 0 ELSE CHOOSE j \in ids : \A h \in ids : j <= h

\* int(text), None on ValueError
IntOrNone(text) == IF IntRaises(text) THEN None ELSE IntV(IntOf(text))

\* parse_filename without the test of prefix and extension: the eight
\* characters in front and the four at the end are cut off whatever they are.
parse_any_name(path) ==
    LET base == Basename(path)
        core == SubSeq(base, Len(DRAMSys_) + 1, Len(base) - Len(DotTdb))
        parts == Split(core, "_")
        tier == parts[1] \o <<"_">> \o parts[2]
        p == FirstIdPart(parts)
        config_id == IF p = 0 THEN None ELSE IntOrNone(DropFirst(parts[p], 2))
        last == parts[Len(parts)]
        channel ==
            IF StartsWith(last, <<"c", "h">>)
            THEN IntOrNone(DropFirst(last, 2))
            ELSE None
    IN  IF Len(parts) < 3 THEN <<None, None, None, None>>
        ELSE <<StrV(tier), config_id, StrV(core), channel>>

parse_filename(path) ==
    LET base == Basename(path)
        core == SubSeq(base, Len(DRAMSys_) + 1, Len(base) - Len(DotTdb))
        parts == Split(core, "_")
        tier == parts[1] \o <<"_">> \o parts[2]
        p == FirstIdPart(parts)
        config_id == IF p = 0 THEN None ELSE IntOrNone(DropFirst(parts[p], 2))
        last == parts[Len(parts)]
        channel ==
            IF StartsWith(last, <<"c", "h">>)
            THEN IntOrNone(DropFirst(last, 2))
            ELSE None
    IN  IF ~StartsWith(base, DRAMSys_) \/ ~EndsWith(base, DotTdb)
        THEN <<None, None, None, None>>
        ELSE IF Len(parts) < 3 THEN <<None, None, None, None>>
        ELSE <<StrV(tier), config_id, StrV(core), channel>>

\* The header row of metrics_summary_v2.csv.
GlobHeader ==
    <<"tier", "config_id", "sim_id", "tdb_path", "channel", "avg_bw",
      "max_bw", "avg_power", "max_power", "avg_buf_depth", "max_buf_depth",
      "total_transactions">>

\* A row of column titles, each title kept as one word.
HeaderRow(names) == [j \in 1..Len(names) |-> [k |-> "title", v |-> names[j]]]

\* What the output file holds before the script runs: the lines a run
\* before it left there.
PreviousOutput == <<HeaderRow(<<"stale">>), HeaderRow(<<"stale">>)>>

\* csv.writer writes None as the empty string.
CsvCell(x) == IF IsNone(x) THEN StrV(<<>>) ELSE x

CsvRow(values) == [j \in 1..Len(values) |-> CsvCell(values[j])]

\* The file the glob matched under this path.
FileAt(path) == CHOOSE f \in fs : f.path = path

\* sqlite3.connect(path)
Connect(content) ==
    IF content.kind = "dir" THEN Raises("OperationalError")
    ELSE Returns(content)

\* parse_filename on each path the glob can match.
Parsed == [path \in GlobPaths |-> parse_filename(path)]

\* The four readers on each connection main can open.
Measured ==
    [conn \in GlobContents \ {[kind |-> "dir"]} |->
        [bw |-> get_numeric_agg(conn, "Bandwidth").val,
         power |-> get_numeric_agg(conn, "Power").val,
         buf |-> get_numeric_agg(conn, "BufferDepth").val,
         total_txn |-> get_transaction_count(conn)]]

\* The row main writes for a database it could open.
GlobRow(path, conn) ==
    LET id == Parsed[path]
        got == Measured[conn]
    IN  <<id[1], id[2], id[3], StrV(path), id[4], got.bw[1], got.bw[2],
          got.power[1], got.power[2], got.buf[1], got.buf[2], got.total_txn>>

Said(path, what) == [path |-> path, what |-> what]

GlobKeep == UNCHANGED <<prog, fs, manifest_files, reader, counts, arg, ret>>

\* tdb_files = sorted(glob.glob(TDB_GLOB)); nothing matched: print, return.
GlobNoFiles ==
    /\ prog = "glob" /\ pc = "start"
    /\ fs = {}
    /\ tdb_files' = <<>>
    /\ pc' = "done"
    /\ UNCHANGED <<pos, out, calls>>
    /\ GlobKeep

\* The output opened for appending instead of for writing: the header
\* comes after what a run before left in the file.
GlobOpenAppending ==
    /\ prog = "glob" /\ pc = "start"
    /\ fs # {}
    /\ tdb_files' = Sorted({f.path : f \in fs})
    /\ out' = out \o <<HeaderRow(GlobHeader)>>
    /\ pos' = 1
    /\ pc' = "loop"
    /\ UNCHANGED calls
    /\ GlobKeep

\* open(OUTPUT_CSV, "w") and the header row.
GlobOpen ==
    /\ prog = "glob" /\ pc = "start"
    /\ fs # {}
    /\ tdb_files' = Sorted({f.path : f \in fs})
    /\ out' = <<HeaderRow(GlobHeader)>>
    /\ pos' = 1
    /\ pc' = "loop"
    /\ UNCHANGED calls
    /\ GlobKeep

InFiles == prog = "glob" /\ pc = "loop" /\ pos <= Len(tdb_files)

CurPath == tdb_files[pos]

CurFile == FileAt(CurPath)

\* if size == 0: continue
GlobSkipEmpty ==
    /\ InFiles
    /\ CurFile.size = 0
    /\ calls' = Append(calls, Said(CurPath, "Skipping empty DB"))
    /\ pos' = pos + 1
    /\ UNCHANGED <<pc, tdb_files, out>>
    /\ GlobKeep

\* if tier is None: continue
GlobSkipUnrecognized ==
    /\ InFiles
    /\ CurFile.size # 0
    /\ IsNone(Parsed[CurPath][1])
    /\ calls' = Append(calls, Said(CurPath, "Skipping unrecognized filename"))
    /\ pos' = pos + 1
    /\ UNCHANGED <<pc, tdb_files, out>>
    /\ GlobKeep

\* except sqlite3.Error around sqlite3.connect: continue
GlobOpenError ==
    /\ InFiles
    /\ CurFile.size # 0
    /\ ~IsNone(Parsed[CurPath][1])
    /\ Connect(CurFile.content).exc \in SqliteError
    /\ calls' = Append(calls, Said(CurPath, "ERROR opening"))
    /\ pos' = pos + 1
    /\ UNCHANGED <<pc, tdb_files, out>>
    /\ GlobKeep

\* The rest of the loop body: the four readers, conn.close(), the row.
GlobWriteRow ==
    /\ InFiles
    /\ CurFile.size # 0
    /\ ~IsNone(Parsed[CurPath][1])
    /\ Connect(CurFile.content).exc = ""
    /\ calls' = Append(calls, Said(CurPath, "connect"))
    /\ out' = Append(out, CsvRow(GlobRow(CurPath, Connect(CurFile.content).val)))
    /\ pos' = pos + 1
    /\ UNCHANGED <<pc, tdb_files>>
    /\ GlobKeep

\* The loop is over: the file is closed, "Wrote metrics to ..." printed.
GlobFinish ==
    /\ prog = "glob" /\ pc = "loop"
    /\ pos > Len(tdb_files)
    /\ pc' = "done"
    /\ UNCHANGED <<tdb_files, pos, out, calls>>
    /\ GlobKeep

NextGlob ==
    \/ GlobNoFiles
    \/ GlobOpen
    \/ GlobSkipEmpty
    \/ GlobSkipUnrecognized
    \/ GlobOpenError
    \/ GlobWriteRow
    \/ GlobFinish

\* A run of the glob extractor: any files, up to MaxFiles of them.
InitGlob ==
    /\ prog = "glob" /\ pc = "start"
    /\ \E P \in SUBSET GlobPaths :
          /\ Cardinality(P) <= MaxFiles
          /\ \E st \in [P -> FileStates] :
                fs = {[path |-> p, size |-> st[p].size,
                       content |-> st[p].content] : p \in P}
    /\ tdb_files = <<>> /\ manifest_files = <<>> /\ pos = 0
    /\ out = PreviousOutput
    /\ calls = <<>> /\ reader = <<>> /\ counts = <<>> /\ arg = None
    /\ ret = None

SpecGlob == InitGlob /\ [][NextGlob]_vars

-----------------------------------------------------------------------------
(* extractor.py: the manifest extractor.                                   *)

\* cur.execute(query); row = cur.fetchone();
\* row[0] if row and row[0] is not None else None.  A raise of execute is
\* not caught here.
safe_single_value(cur, agg, col, table, w) == Select(cur, agg, col, table, w)

\* The exception of the first call that raises, "" when none does.
FirstRaise(results) ==
    LET bad == {j \in 1..Len(results) : results[j].exc # ""}
    IN  IF bad = {} THEN ""
        ELSE results[CHOOSE j \in bad : \A h \in bad : j <= h].exc

\* Lines 34-49: the eight aggregates read before the read/write split.
BasicMetrics(cur) ==
    <<safe_single_value(cur, "AVG", "AverageBandwidth", "Bandwidth", NoWhere),
      safe_single_value(cur, "MAX", "AverageBandwidth", "Bandwidth", NoWhere),
      safe_single_value(cur, "MAX", "Time", "Bandwidth", NoWhere),
      safe_single_value(cur, "AVG", "AveragePower", "Power", NoWhere),
      safe_single_value(cur, "MAX", "AveragePower", "Power", NoWhere),
      safe_single_value(cur, "AVG", "AverageBufferDepth", "BufferDepth",
                        NoWhere),
      safe_single_value(cur, "MAX", "AverageBufferDepth", "BufferDepth",
                        NoWhere),
      safe_single_value(cur, "COUNT", "*", "Transactions", NoWhere)>>

\* The body of the try: Command LIKE 'READ%', Command LIKE 'WRITE%'.
PrefixMatch(cur) ==
    <<safe_single_value(cur, "COUNT", "*", "Transactions",
                        [op |-> "LIKE", arg |-> READ]),
      safe_single_value(cur, "COUNT", "*", "Transactions",
                        [op |-> "LIKE", arg |-> WRITE])>>

\* The body of the except: Command IN ('R','READ'), Command IN ('W','WRITE').
ExactMatch(cur) ==
    <<safe_single_value(cur, "COUNT", "*", "Transactions",
                        [op |-> "IN", arg |-> {<<"R">>, READ}]),
      safe_single_value(cur, "COUNT", "*", "Transactions",
                        [op |-> "IN", arg |-> {<<"W">>, WRITE}])>>

\* Lines 53-67: try the prefix match; except sqlite3.OperationalError run
\* the exact match, whose own raise nothing catches.  attempt is the query
\* pair that ran last.
ReadWriteSplit(cur) ==
    LET first == PrefixMatch(cur)
        second == ExactMatch(cur)
    IN  IF FirstRaise(first) = ""
        THEN [exc |-> "", attempt |-> "prefix",
              val |-> <<first[1].val, first[2].val>>]
        ELSE IF FirstRaise(first) # "OperationalError"
        THEN [exc |-> FirstRaise(first), attempt |-> "prefix",
              val |-> <<None, None>>]
        ELSE IF FirstRaise(second) = ""
        THEN [exc |-> "", attempt |-> "exact",
              val |-> <<second[1].val, second[2].val>>]
        ELSE [exc |-> FirstRaise(second), attempt |-> "exact",
              val |-> <<None, None>>]

\* Lines 70-76: SELECT * FROM GeneralInfo, fetchone, and the dict from
\* column name to value of that row; the empty dict when there is no row.
ReadGeneralInfo(cur) ==
    IF cur.kind = "garbage" THEN Raises("DatabaseError")
    ELSE IF ~HasTable(cur, "GeneralInfo") THEN Raises("OperationalError")
    ELSE LET t == cur.tables["GeneralInfo"]
         IN  IF t.rows = <<>> THEN Returns(<<>>)
             ELSE Returns([name \in {t.cols[c] : c \in 1..Len(t.cols)} |->
                            t.rows[1][CHOOSE c \in 1..Len(t.cols) :
                                          t.cols[c] = name]])

MetricNames ==
    <<"avg_bw_Gbps", "max_bw_Gbps", "sim_time_units", "avg_power_W",
      "max_power_W", "avg_buf_depth", "max_buf_depth", "total_transactions",
      "read_transactions", "write_transactions">>

GeneralInfoKeys == {"clk", "UnitOfTime", "MCconfig", "Memspec", "Traces"}

Range(f) == {f[j] : j \in DOMAIN f}

\* The dict m of lines 80-96.
MetricsDict(basic, split, general_info) ==
    LET gi == {key \in GeneralInfoKeys : key \in DOMAIN general_info}
        values == [j \in 1..8 |-> basic[j].val] \o split
    IN  [name \in Range(MetricNames) \cup {"GI_" \o key : key \in gi} |->
            IF name \in Range(MetricNames)
            THEN values[CHOOSE j \in 1..10 : MetricNames[j] = name]
            ELSE general_info[CHOOSE key \in gi : "GI_" \o key = name]]

\* extract_metrics_from_db on what db_path holds: the first raise ends the
\* call.
extract_metrics_from_db(content) ==
    LET conn == Connect(content)
        cur == conn.val
        basic == BasicMetrics(cur)
        split == ReadWriteSplit(cur)
        info == ReadGeneralInfo(cur)
    IN  IF conn.exc # "" THEN Raises(conn.exc)
        ELSE IF FirstRaise(basic) # "" THEN Raises(FirstRaise(basic))
        ELSE IF split.exc # "" THEN Raises(split.exc)
        ELSE IF info.exc # "" THEN Raises(info.exc)
        ELSE Returns(MetricsDict(basic, split.val, info.val))

\* fieldnames of the DictWriter: six identifying columns, then metric_fields.
ManifestHeader ==
    <<"tier", "config_id", "sim_id", "trace_name", "simconfig", "channel">>
        \o MetricNames
        \o <<"GI_clk", "GI_UnitOfTime", "GI_MCconfig", "GI_Memspec",
             "GI_Traces">>

\* csv.DictWriter.writerow: the value of each field name in header order,
\* the empty string for a name the dict lacks.
DictRow(fieldnames, rowdict) ==
    [j \in 1..Len(fieldnames) |->
        IF fieldnames[j] \in DOMAIN rowdict
        THEN CsvCell(rowdict[fieldnames[j]])
        ELSE StrV(<<>>)]

\* sim_id = f"{tier}_id{config_id}_{trace_stem}"
SimId(row) ==
    row.tier \o <<"_", "i", "d">> \o row.config_id \o <<"_">>
        \o Stem(row.trace_name)

\* db_name = f"DRAMSys_{sim_id}_{simconfig_stub}_ch{ch}.tdb"
DbName(row, ch) ==
    DRAMSys_ \o SimId(row) \o <<"_">> \o Stem(row.simconfig)
        \o <<"_", "c", "h">> \o DecimalText(ch) \o DotTdb

\* range(4)
Channels == 4

\* out_row, updated with the metrics
OutRow(row, ch, metrics) ==
    LET ident == [tier |-> StrV(row.tier), config_id |-> StrV(row.config_id),
                  sim_id |-> StrV(SimId(row)),
                  trace_name |-> StrV(row.trace_name),
                  simconfig |-> StrV(row.simconfig), channel |-> IntV(ch)]
    IN  [name \in DOMAIN ident \cup DOMAIN metrics |->
            IF name \in DOMAIN metrics THEN metrics[name] ELSE ident[name]]

\* The position of the three nested loops: manifest m, its row r, channel
\* ch.  Past the last row of a manifest the next manifest begins; m past
\* the last manifest is the end.
RECURSIVE RowFrom(_, _)
RowFrom(m, r) ==
    IF m > Len(manifest_files) THEN [m |-> m, r |-> 1, ch |-> 0]
    ELSE IF r > Len(manifest_files[m]) THEN RowFrom(m + 1, 1)
    ELSE [m |-> m, r |-> r, ch |-> 0]

Advance(p) ==
    IF p.ch + 1 < Channels THEN [p EXCEPT !.ch = p.ch + 1]
    ELSE RowFrom(p.m, p.r + 1)

AtEnd(p) == p.m > Len(manifest_files)

Absent == [kind |-> "absent"]

\* db_path.exists() and what the path holds.  The disk is looked at when
\* the loop reaches a name, and holds the same each time it is asked.
Holds(db_name, content) ==
    IF db_name \in DOMAIN fs THEN content = fs[db_name] ELSE TRUE

Seen(db_name, content) ==
    [n \in DOMAIN fs \cup {db_name} |-> IF n = db_name THEN content ELSE fs[n]]

ManifestKeep ==
    UNCHANGED <<prog, tdb_files, manifest_files, reader, counts, arg, ret>>

\* if not manifest_files: raise SystemExit
ManifestNone ==
    /\ prog = "manifest" /\ pc = "start"
    /\ manifest_files = <<>>
    /\ pc' = "exit"
    /\ UNCHANGED <<fs, pos, out, calls>>
    /\ ManifestKeep

\* out_path.open("w") and writer.writeheader()
ManifestOpen ==
    /\ prog = "manifest" /\ pc = "start"
    /\ manifest_files # <<>>
    /\ out' = <<HeaderRow(ManifestHeader)>>
    /\ pos' = RowFrom(1, 1)
    /\ pc' = "loop"
    /\ UNCHANGED <<fs, calls>>
    /\ ManifestKeep

InLoop == prog = "manifest" /\ pc = "loop" /\ ~AtEnd(pos)

CurRow == manifest_files[pos.m][pos.r]

\* The rows a manifest can hold.
ManifestRows ==
    {[tier |-> lp4, config_id |-> id,
      trace_name |-> <<"x", ".", "t", "r", "a", "c", "e">>,
      simconfig |-> <<"d", ".", "j", "s", "o", "n">>] :
        id \in {<<"4", "2">>, <<"7">>}}

\* sim_id and db_name of each manifest row and channel.
SimIds == [row \in ManifestRows |-> SimId(row)]

DbNames ==
    [row \in ManifestRows |->
        [ch \in 0..(Channels - 1) |-> DbName(row, ch)]]

CurDb == DbNames[CurRow][pos.ch]

\* What an expected database path can hold: nothing, the sample database,
\* one with short command names and no GeneralInfo row, the sample database
\* less one table, one whose Transactions table has no Command column, a
\* file that is no database, a directory.
ManifestTables == GlobTables \cup {"GeneralInfo"}

TerseDb ==
    Database([t \in ManifestTables |->
        CASE t = "Transactions" ->
                [cols |-> <<"ID", "Command">>,
                 rows |-> <<<<IntV(1), StrV(<<"R">>)>>,
                            <<IntV(2), StrV(<<"W">>)>>>>]
          [] t = "GeneralInfo" -> [SampleTable(t) EXCEPT !.rows = <<>>]
          [] OTHER -> SampleTable(t)])

NoCommandDb ==
    Database([t \in ManifestTables |->
        IF t = "Transactions"
        THEN [cols |-> <<"ID">>, rows |-> <<<<IntV(1)>>>>]
        ELSE SampleTable(t)])

ManifestContents ==
    {SampleDb(ManifestTables), TerseDb, NoCommandDb,
     [kind |-> "garbage"], [kind |-> "dir"]}
        \cup {SampleDb(ManifestTables \ {t}) : t \in ManifestTables}

\* What extract_metrics_from_db does on each content.
Extracted == [content \in ManifestContents |-> extract_metrics_from_db(content)]

\* if not db_path.exists(): continue
ManifestSkip ==
    /\ InLoop
    /\ Holds(CurDb, Absent)
    /\ fs' = Seen(CurDb, Absent)
    /\ pos' = Advance(pos)
    /\ UNCHANGED <<pc, out, calls>>
    /\ ManifestKeep

\* extract_metrics_from_db returns: the row is written.
ManifestWriteRow ==
    \E content \in ManifestContents :
        /\ InLoop
        /\ Holds(CurDb, content)
        /\ Extracted[content].exc = ""
        /\ fs' = Seen(CurDb, content)
        /\ calls' = Append(calls, Said(CurDb, "returned"))
        /\ out' = Append(out,
               DictRow(ManifestHeader,
                       OutRow(CurRow, pos.ch, Extracted[content].val)))
        /\ pos' = Advance(pos)
        /\ UNCHANGED pc
        /\ ManifestKeep

\* extract_metrics_from_db raises: nothing in main catches it, the script
\* ends with the traceback, the output file closed as it stands.
ManifestRaise ==
    \E content \in ManifestContents :
        /\ InLoop
        /\ Holds(CurDb, content)
        /\ Extracted[content].exc # ""
        /\ fs' = Seen(CurDb, content)
        /\ calls' = Append(calls, Said(CurDb, Extracted[content].exc))
        /\ pc' = "raised"
        /\ UNCHANGED <<pos, out>>
        /\ ManifestKeep

\* The loops are over: the file is closed, "Done." printed.
ManifestFinish ==
    /\ prog = "manifest" /\ pc = "loop"
    /\ AtEnd(pos)
    /\ pc' = "done"
    /\ UNCHANGED <<fs, pos, out, calls>>
    /\ ManifestKeep

NextManifest ==
    \/ ManifestNone
    \/ ManifestOpen
    \/ ManifestSkip
    \/ ManifestWriteRow
    \/ ManifestRaise
    \/ ManifestFinish

\* The rows a manifest can hold.
RowLists == UNION {[1..n -> ManifestRows] : n \in 0..MaxRows}

\* No manifest, one of up to MaxRows rows, or two of at most one row each,
\* with up to MaxRows rows in all.
ManifestLists ==
    {<<>>} \cup {<<m>> : m \in RowLists}
        \cup {<<m[1], m[2]>> :
                m \in {x \in RowLists \X RowLists :
                          /\ Len(x[1]) + Len(x[2]) <= MaxRows
                          /\ Len(x[1]) <= 1 /\ Len(x[2]) <= 1}}

\* A run of the manifest extractor.
InitManifest ==
    /\ prog = "manifest" /\ pc = "start"
    /\ manifest_files \in ManifestLists
    /\ fs = <<>> /\ tdb_files = <<>> /\ pos = 0
    /\ out = PreviousOutput
    /\ calls = <<>> /\ reader = <<>> /\ counts = <<>> /\ arg = None
    /\ ret = None

SpecManifest == InitManifest /\ [][NextManifest]_vars

\* Either extractor.
SpecExtractors ==
    (InitGlob \/ InitManifest) /\ [][NextGlob \/ NextManifest]_vars

-----------------------------------------------------------------------------
(* summarize_invalid_reasons.py: the reason tallier.                       *)

EMPTY_REASON_FIELD ==
    <<"<", "E", "M", "P", "T", "Y", "_", "R", "E", "A", "S", "O", "N", "_",
      "F", "I", "E", "L", "D", ">">>

\* (row.get("invalid_reasons") or "").strip(), the sentinel when that is
\* empty.  A row without the column gives None.
ReasonOf(row) ==
    LET cell == row.invalid_reasons
        text == IF IsNone(cell) \/ cell.v = <<>> THEN <<>> ELSE cell.v
        reason == Strip(text)
    IN  IF reason = <<>> THEN EMPTY_REASON_FIELD ELSE reason

\* counts[reason] += 1 on a Counter, which keeps its keys in the order they
\* were first set.
Count(counter, reason) ==
    IF \E j \in 1..Len(counter) : counter[j].key = reason
    THEN [j \in 1..Len(counter) |->
            IF counter[j].key = reason
            THEN [counter[j] EXCEPT !.n = counter[j].n + 1]
            ELSE counter[j]]
    ELSE Append(counter, [key |-> reason, n |-> 1])

\* sum(counts.values())
RECURSIVE Total(_)
Total(counter) ==
    IF counter = <<>> THEN 0 ELSE Head(counter).n + Total(Tail(counter))

\* One step of the stable sort by count, largest first: item goes behind
\* every item that is not smaller.
InsertByCount(sorted, item) ==
    LET before == {j \in 0..Len(sorted) :
                      \A h \in 1..j : sorted[h].n >= item.n}
        at == CHOOSE j \in before : \A h \in before : h <= j
    IN  SubSeq(sorted, 1, at) \o <<item>> \o SubSeq(sorted, at + 1, Len(sorted))

\* counts.most_common(): sorted(items, key=count, reverse=True)
RECURSIVE MostCommonFrom(_, _)
MostCommonFrom(sorted, rest) ==
    IF rest = <<>> THEN sorted
    ELSE MostCommonFrom(InsertByCount(sorted, Head(rest)), Tail(rest))

\* The items of the counter as they were first seen, not sorted by count.
insertion_order(counter) == counter

most_common(counter) == MostCommonFrom(<<>>, counter)

CountWidth == 5

SeparatorWidth == 60

\* f"{n:5d}": the decimal digits, padded on the left to five characters.
PadCount(n) ==
    LET digits == DecimalText(n)
    IN  [j \in 1..(CountWidth - Min(CountWidth, Len(digits))) |-> " "]
            \o digits

\* f"{n:5d}  {reason}"
ReasonLine(item) == PadCount(item.n) \o <<" ", " ">> \o item.key

TotalLabel ==
    <<"T", "o", "t", "a", "l", " ", "i", "n", "v", "a", "l", "i", "d", " ",
      "c", "o", "n", "f", "i", "g", "s", " ", "c", "o", "u", "n", "t", "e",
      "d", ":", " ">>

\* The lines of lines 36-40.
SummaryLines(counter) ==
    LET ranked == most_common(counter)
    IN  [j \in 1..Len(ranked) |-> ReasonLine(ranked[j])]
            \o <<[j \in 1..SeparatorWidth |-> "-"]>>
            \o <<TotalLabel \o DecimalText(Total(counter))>>

TallyKeep ==
    UNCHANGED <<prog, fs, tdb_files, manifest_files, calls, reader, arg, ret>>

\* One turn of the loop over the reader.
TallyRow ==
    /\ prog = "tally" /\ pc = "read"
    /\ pos <= Len(reader)
    /\ counts' = Count(counts, ReasonOf(reader[pos]))
    /\ pos' = pos + 1
    /\ UNCHANGED <<pc, out>>
    /\ TallyKeep

\* The rows are read: total, the lines, the print and the report file.
TallyReport ==
    /\ prog = "tally" /\ pc = "read"
    /\ pos > Len(reader)
    /\ out' = SummaryLines(counts)
    /\ pc' = "done"
    /\ UNCHANGED <<pos, counts>>
    /\ TallyKeep

NextTally == TallyRow \/ TallyReport

\* What the invalid_reasons cell of a row can hold.
ReasonCells ==
    {None, StrV(<<>>), StrV(<<" ">>), StrV(<<"A">>), StrV(<<" ", "A", "\n">>),
     StrV(<<"B">>), StrV(<<"b">>)}

\* A run of the tallier on up to MaxInputRows rows.
InitTally ==
    /\ prog = "tally" /\ pc = "read"
    /\ \E n \in 0..MaxInputRows :
          \E cells \in [1..n -> ReasonCells] :
              reader = [j \in 1..n |-> [invalid_reasons |-> cells[j]]]
    /\ pos = 1 /\ counts = <<>> /\ out = PreviousOutput
    /\ fs = <<>> /\ tdb_files = <<>> /\ manifest_files = <<>>
    /\ calls = <<>> /\ arg = None /\ ret = None

SpecTally == InitTally /\ [][NextTally]_vars

-----------------------------------------------------------------------------
(* parse_filename and get_numeric_agg called on their own.                 *)

CallKeep ==
    UNCHANGED <<prog, fs, tdb_files, manifest_files, pos, out, calls, reader,
                counts, arg>>

ParseCall ==
    /\ prog = "parse_filename" /\ pc = "call"
    /\ ret' = parse_filename(arg)
    /\ pc' = "done"
    /\ CallKeep

ParseTokens == {tier_, <<"x">>, idle, id42, ch1, chx}

TokenLists(n) == UNION {[1..k -> ParseTokens] : k \in 0..n}

\* The paths parse_filename is called on: a prefix, up to n tokens
\* joined by "_", an extension.
ParsePaths(n) ==
    {Dir \o prefix \o Text(tokens) \o ext :
        prefix \in {DRAMSys_, <<"d", "r", "a", "m", "s", "y", "s", "_">>},
        tokens \in TokenLists(n),
        ext \in {DotTdb, <<".", "d", "b">>}}

InitParse ==
    /\ prog = "parse_filename" /\ pc = "call"
    /\ arg \in ParsePaths(MaxTokens)
    /\ ret = None
    /\ fs = <<>> /\ tdb_files = <<>> /\ manifest_files = <<>> /\ pos = 0
    /\ out = PreviousOutput /\ calls = <<>> /\ reader = <<>> /\ counts = <<>>

SpecParse == InitParse /\ [][ParseCall]_vars

AggCall ==
    /\ prog = "get_numeric_agg" /\ pc = "call"
    /\ ret' = get_numeric_agg(arg.conn, arg.table_name)
    /\ pc' = "done"
    /\ CallKeep

AggCells == {None, IntV(1), IntV(3)}

AggSchemas == {<<"Value">>, <<"Time", "Value">>, <<"Time", "Avg BW">>}

\* Tables of up to MaxTableRows rows.
AggTables ==
    UNION {{[cols |-> cols, rows |-> rows] :
               rows \in [1..n -> [1..Len(cols) -> AggCells]]} :
           cols \in AggSchemas, n \in 0..MaxTableRows}

\* The connections get_numeric_agg is called on: to a file that is no
\* database, to a database without tables, to one with a Bandwidth table.
AggConns ==
    {[kind |-> "garbage"], Database(<<>>)}
        \cup {Database([t \in {"Bandwidth"} |-> table]) : table \in AggTables}

InitAgg ==
    /\ prog = "get_numeric_agg" /\ pc = "call"
    /\ arg \in [conn : AggConns, table_name : {"Bandwidth", "Power"}]
    /\ ret = None
    /\ fs = <<>> /\ tdb_files = <<>> /\ manifest_files = <<>> /\ pos = 0
    /\ out = PreviousOutput /\ calls = <<>> /\ reader = <<>> /\ counts = <<>>

SpecAgg == InitAgg /\ [][AggCall]_vars

-----------------------------------------------------------------------------
(* The glob extractor's claims.                                            *)

\* The output file has been opened by this run.
GlobWrote == prog = "glob" /\ pc \in {"loop", "done"} /\ tdb_files # <<>>

\* The files the loop is done with, in the order it took them.
Processed == SubSeq(tdb_files, 1, pos - 1)

\* The tdb_path column of the data rows.
RowPaths == [j \in 1..(Len(out) - 1) |-> out[j + 1][4].v]

\* The skips the claim names: size 0, or a null tier from parse_filename.
ExplicitlySkipped(path) ==
    FileAt(path).size = 0 \/ IsNone(Parsed[path][1])

\* The table a column of the glob extractor's row is read from.
ColumnTable ==
    <<"", "", "", "", "", "Bandwidth", "Bandwidth", "Power", "Power",
      "BufferDepth", "BufferDepth", "Transactions">>

PresentTables(content) ==
    IF content.kind = "db" THEN DOMAIN content.tables ELSE {}

\* The row of path is the row of a database with every table, but for the
\* columns of the tables its database lacks, which are empty.
OnlyAbsentNulled(row, path) ==
    LET whole == CsvRow(GlobRow(path, SampleDb(GlobTables)))
        have == PresentTables(FileAt(path).content)
    IN  /\ Len(row) = Len(GlobHeader)
        /\ \A c \in 1..Len(GlobHeader) :
              row[c] = IF ColumnTable[c] = "" \/ ColumnTable[c] \in have
                       THEN whole[c]
                       ELSE StrV(<<>>)

SortedPaths ==
    \A j \in 1..Len(tdb_files) : \A h \in 1..Len(tdb_files) :
        j < h => StrLess(tdb_files[j], tdb_files[h])

\* C1 as stated: every matched file that is neither of size 0 nor of null
\* tier has exactly one data row, the rows in sorted path order, whatever
\* tables are absent or empty; an absent table only empties its own
\* columns; a skipped file has no row.
C1_RowForEveryFileNotSkipped ==
    GlobWrote =>
        /\ SortedPaths
        /\ RowPaths = SelectSeq(Processed, LAMBDA p : ~ExplicitlySkipped(p))
        /\ \A j \in 1..Len(RowPaths) : OnlyAbsentNulled(out[j + 1], RowPaths[j])

\* A file main goes on to read: not skipped, and sqlite3.connect opened it.
Read(path) ==
    ~ExplicitlySkipped(path) /\ FileAt(path).content.kind # "dir"

\* C1 as amended: every matched file that is neither of size 0, nor of null
\* tier, nor refused by sqlite3.connect has exactly one data row, the rows
\* in sorted path order, whatever tables are absent or empty; an absent
\* table only empties its own columns; every other file has no row.
C1_RowForEveryFileRead ==
    GlobWrote =>
        /\ SortedPaths
        /\ RowPaths = SelectSeq(Processed, LAMBDA p : Read(p))
        /\ \A j \in 1..Len(RowPaths) : OnlyAbsentNulled(out[j + 1], RowPaths[j])

\* The run is over, it met a path sqlite3.connect refused, and it wrote the
\* row of a database that lacks a table.
C1_Witness ==
    /\ prog = "glob" /\ pc = "done"
    /\ \E j \in 1..Len(calls) : calls[j].what = "ERROR opening"
    /\ \E j \in 1..Len(RowPaths) :
          PresentTables(FileAt(RowPaths[j]).content) \notin {{}, GlobTables}

\* The name of path does not start with DRAMSys_ or does not end with .tdb.
WrongName(path) ==
    LET base == Basename(path)
    IN  \/ Len(base) < 8 \/ SubSeq(base, 1, 8) # DRAMSys_
        \/ Len(base) < 4 \/ SubSeq(base, Len(base) - 3, Len(base)) # DotTdb

\* What the script did about path, in order.
Dealt(path) == SelectSeq(calls, LAMBDA c : c.path = path)

\* parse_filename gives four nulls for every path with a wrong name.
WrongNamesGiveNulls ==
    \A path \in GlobPaths :
        WrongName(path) => parse_filename(path) = <<None, None, None, None>>

\* C7: parse_filename gives four nulls for a name with another prefix or
\* another extension, and main skips the file: it connects to nothing for
\* it, writes no row for it, and goes on to the next file.
C7_WrongNameSkipped ==
    /\ WrongNamesGiveNulls
    /\ GlobWrote =>
          /\ Len(calls) = pos - 1
          /\ \A j \in 1..Len(Processed) :
                WrongName(Processed[j]) =>
                    /\ calls[j].path = Processed[j]
                    /\ calls[j].what \in {"Skipping unrecognized filename",
                                          "Skipping empty DB"}
                    /\ Len(Dealt(Processed[j])) = 1
                    /\ \A r \in 1..Len(RowPaths) : RowPaths[r] # Processed[j]

\* The run is over; its first file had the wrong extension and a size
\* other than 0, and the file after it has its row.
C7_Witness ==
    /\ prog = "glob" /\ pc = "done"
    /\ Len(tdb_files) = 2
    /\ WrongName(tdb_files[1])
    /\ calls[1].what = "Skipping unrecognized filename"
    /\ RowPaths = <<tdb_files[2]>>

-----------------------------------------------------------------------------
(* The manifest extractor's claims.                                        *)

\* The positions of the loops, in the order the loops take them.
RECURSIVE PositionsFrom(_)
PositionsFrom(p) ==
    IF AtEnd(p) THEN <<>> ELSE <<p>> \o PositionsFrom(Advance(p))

AllPositions == PositionsFrom(RowFrom(1, 1))

RowAt(p) == manifest_files[p.m][p.r]

NameAt(p) == DbNames[RowAt(p)][p.ch]

\* The script is over, normally or not.
ManifestOver == prog = "manifest" /\ pc \in {"done", "raised"}

\* The six identifying cells of the row written for position p.
Identity(p) ==
    <<StrV(RowAt(p).tier), StrV(RowAt(p).config_id), StrV(SimId(RowAt(p))),
      StrV(RowAt(p).trace_name), StrV(RowAt(p).simconfig), IntV(p.ch)>>

\* C4 as stated: for every manifest row and every channel 0..3 there is
\* exactly one output row if and only if the expected database file
\* exists; a channel without its file has no row and is no error; the
\* rows are in manifest-row order, then by channel.
C4_RowIffFileExists ==
    ManifestOver =>
        LET looked == SelectSeq(AllPositions,
                                LAMBDA p : NameAt(p) \in DOMAIN fs)
            there == SelectSeq(looked, LAMBDA p : fs[NameAt(p)] # Absent)
        IN  /\ pc = "done"
            /\ [j \in 1..(Len(out) - 1) |-> SubSeq(out[j + 1], 1, 6)]
                   = [j \in 1..Len(there) |-> Identity(there[j])]

\* The table a metric of the manifest extractor is read from.
MetricTable(name) ==
    CASE name \in {"avg_bw_Gbps", "max_bw_Gbps", "sim_time_units"} ->
            "Bandwidth"
      [] name \in {"avg_power_W", "max_power_W"} -> "Power"
      [] name \in {"avg_buf_depth", "max_buf_depth"} -> "BufferDepth"
      [] name \in {"total_transactions", "read_transactions",
                   "write_transactions"} -> "Transactions"
      [] OTHER -> "GeneralInfo"

Column(name) ==
    CHOOSE c \in 1..Len(ManifestHeader) : ManifestHeader[c] = name

\* C2 as stated: on an existing database that lacks tables or a queried
\* column the routine does not raise; it returns a record, main writes its
\* row, and in it every metric of a missing table is empty.
C2_MissingTableIsNull ==
    prog = "manifest" /\ pc \in {"loop", "done", "raised"} =>
        /\ Len(out) - 1 = Len(calls)
        /\ \A j \in 1..Len(calls) :
              fs[calls[j].path].kind = "db" =>
                  /\ calls[j].what = "returned"
                  /\ \A c \in 7..Len(ManifestHeader) :
                        ~HasTable(fs[calls[j].path],
                                  MetricTable(ManifestHeader[c]))
                            => out[j + 1][c] = StrV(<<>>)

\* C10 as stated: the prefix match is tried first; if and only if it fails
\* structurally the exact match is run and its results are the counts; a
\* zero result of the prefix match is kept; and a structural failure of the
\* prefix match ends in a returned record, not in an error.
C10_TwoAttempts ==
    prog = "manifest" /\ pc \in {"loop", "done", "raised"} =>
        \A j \in 1..Len(calls) :
            LET conn == fs[calls[j].path]
                first == PrefixMatch(conn)
                second == ExactMatch(conn)
                counted == <<out[j + 1][Column("read_transactions")],
                             out[j + 1][Column("write_transactions")]>>
            IN  conn.kind = "db" /\ FirstRaise(BasicMetrics(conn)) = "" =>
                    IF FirstRaise(first) = ""
                    THEN /\ ReadWriteSplit(conn).attempt = "prefix"
                         /\ calls[j].what = "returned"
                             => counted = <<first[1].val, first[2].val>>
                    ELSE /\ ReadWriteSplit(conn).attempt = "exact"
                         /\ calls[j].what = "returned"
                         /\ counted = <<second[1].val, second[2].val>>

-----------------------------------------------------------------------------
(* The claims about both extractors.                                       *)

\* C3 as stated: a failure to open or to query one database never keeps
\* the databases after it from being processed: the script goes on and
\* comes to its normal end.
C3_FailureDoesNotStopTheBatch ==
    prog \in {"glob", "manifest"} =>
        \A j \in 1..Len(calls) :
            calls[j].what \in SqliteError \cup {"ERROR opening"}
                => pc \in {"loop", "done"}

\* The output file has been opened by this run.
Wrote ==
    \/ GlobWrote
    \/ prog = "manifest" /\ pc \in {"loop", "done", "raised"}

Cell(header, row, name) ==
    row[CHOOSE c \in 1..Len(header) : header[c] = name]

\* The data row stands under the glob extractor's columns.
UnderGlobColumns(row) ==
    LET path == Cell(GlobHeader, row, "tdb_path").v
        id == Parsed[path]
        got == Measured[FileAt(path).content]
        is(name, value) == Cell(GlobHeader, row, name) = CsvCell(value)
    IN  /\ path \in {f.path : f \in fs}
        /\ is("tier", id[1]) /\ is("config_id", id[2]) /\ is("sim_id", id[3])
        /\ is("channel", id[4])
        /\ is("avg_bw", got.bw[1]) /\ is("max_bw", got.bw[2])
        /\ is("avg_power", got.power[1]) /\ is("max_power", got.power[2])
        /\ is("avg_buf_depth", got.buf[1]) /\ is("max_buf_depth", got.buf[2])
        /\ is("total_transactions", got.total_txn)

\* The names of the 15 metric columns.
MetricColumns ==
    Range(MetricNames)
        \cup {"GI_clk", "GI_UnitOfTime", "GI_MCconfig", "GI_Memspec",
               "GI_Traces"}

\* The j-th data row stands under the manifest extractor's columns: its
\* six identifying cells name the database the j-th call read, every
\* metric of that call's record is under its name, every other metric
\* column is empty.
UnderManifestColumns(j) ==
    LET row == out[j + 1]
        cell(name) == Cell(ManifestHeader, row, name)
        m == Extracted[fs[calls[j].path]].val
        run == [tier |-> cell("tier").v, config_id |-> cell("config_id").v,
                trace_name |-> cell("trace_name").v,
                simconfig |-> cell("simconfig").v]
    IN  /\ calls[j].what = "returned"
        /\ \E f \in 1..Len(manifest_files) :
              \E r \in 1..Len(manifest_files[f]) : manifest_files[f][r] = run
        /\ cell("channel").v \in 0..(Channels - 1)
        /\ cell("sim_id") = StrV(SimIds[run])
        /\ calls[j].path = DbNames[run][cell("channel").v]
        /\ \A c \in 1..Len(ManifestHeader) :
              ManifestHeader[c] \in MetricColumns =>
                  row[c] = IF ManifestHeader[c] \in DOMAIN m
                           THEN CsvCell(m[ManifestHeader[c]])
                           ELSE StrV(<<>>)

\* C5: once a run of either extractor has opened its output, nothing of a
\* run before is left in it, its first line is the fixed header (12 columns;
\* 6 identifying and 15 metric columns), no other line is a header, and
\* every data row has its values under those columns, the columns its
\* record lacks empty.
C5_FixedHeaderFirst ==
    Wrote =>
        LET header == IF prog = "glob" THEN GlobHeader ELSE ManifestHeader
        IN  /\ Len(GlobHeader) = 12
            /\ Len(ManifestHeader) = 6 + 15
            /\ out[1] = HeaderRow(header)
            /\ \A j \in 2..Len(out) :
                  /\ out[j] \notin Range(PreviousOutput) \cup {HeaderRow(header)}
                  /\ Len(out[j]) = Len(header)
                  /\ IF prog = "glob"
                     THEN UnderGlobColumns(out[j])
                     ELSE UnderManifestColumns(j - 1)

\* A run of the manifest extractor is over and wrote a row with an empty
\* GI_MCconfig column.
C5_Witness ==
    /\ prog = "manifest" /\ pc = "done"
    /\ Len(out) > 1
    /\ Cell(ManifestHeader, out[2], "GI_MCconfig") = StrV(<<>>)
    /\ Cell(ManifestHeader, out[2], "GI_clk") # StrV(<<>>)

-----------------------------------------------------------------------------
(* The tallier's claim.                                                    *)

\* The reasons of the rows read so far.
ReasonsOf(rows) == {ReasonOf(rows[j]) : j \in 1..Len(rows)}

\* How many of the rows have the reason, and the first of them.
Occurrences(rows, reason) ==
    Cardinality({j \in 1..Len(rows) : ReasonOf(rows[j]) = reason})

FirstSeen(rows, reason) ==
    CHOOSE j \in 1..Len(rows) :
        /\ ReasonOf(rows[j]) = reason
        /\ \A h \in 1..(j - 1) : ReasonOf(rows[h]) # reason

\* The reason a line of the report is about.
LineReason(line) ==
    CHOOSE reason \in ReasonsOf(reader) :
        line = PadCount(Occurrences(reader, reason)) \o <<" ", " ">> \o reason

\* C8: every row is counted once, under its trimmed reason, the sentinel
\* for an empty or missing one; the report has one line per distinct reason
\* with its count, larger counts first and equal counts in first-seen
\* order, then the separator, then the total, which is the number of rows.
C8_TallyReport ==
    /\ prog = "tally" /\ pc = "read" =>
          /\ Total(counts) = pos - 1
          /\ \A j \in 1..Len(counts) :
                counts[j].n = Occurrences(SubSeq(reader, 1, pos - 1),
                                          counts[j].key)
    /\ prog = "tally" /\ pc = "done" =>
          LET n == Len(out) - 2
              count(j) == Occurrences(reader, LineReason(out[j]))
          IN  /\ n = Cardinality(ReasonsOf(reader))
              /\ \A reason \in ReasonsOf(reader) :
                    Cardinality({j \in 1..n : LineReason(out[j]) = reason}) = 1
              /\ \A j \in 1..n : \A h \in 1..n :
                    j < h =>
                        \/ count(j) > count(h)
                        \/ /\ count(j) = count(h)
                           /\ FirstSeen(reader, LineReason(out[j]))
                                  < FirstSeen(reader, LineReason(out[h]))
              /\ out[n + 1] = [j \in 1..SeparatorWidth |-> "-"]
              /\ out[n + 2] = TotalLabel \o DecimalText(Len(reader))
              /\ Total(counts) = Len(reader)

\* The report of three rows is written: the reason seen first has one row,
\* a reason seen later, once with blanks around it, has two and comes
\* first.
C8_Witness ==
    /\ prog = "tally" /\ pc = "done"
    /\ Len(reader) = 3
    /\ ReasonOf(reader[1]) = <<"B">>
    /\ reader[2].invalid_reasons = StrV(<<" ", "A", "\n">>)
    /\ out[1] = <<" ", " ", " ", " ", "2", " ", " ", "A">>
    /\ out[2] = <<" ", " ", " ", " ", "1", " ", " ", "B">>

-----------------------------------------------------------------------------
(* The claims about parse_filename and get_numeric_agg on their own.       *)

\* id<N> or ch<N>: the two letters, then one or more digits.
Numbered(token, letters) ==
    /\ Len(token) > 2
    /\ SubSeq(token, 1, 2) = letters
    /\ \A j \in 3..Len(token) : IsDigit(token[j])

\* The token lists of the names that follow the convention
\* DRAMSys_<tier-tag>_<tier-value>_id<N>_<...>_ch<N>.tdb.
Conventional(tokens) ==
    /\ Len(tokens) >= 5
    /\ Numbered(tokens[3], <<"i", "d">>)
    /\ Numbered(tokens[Len(tokens)], <<"c", "h">>)

\* The tokens of a path's name between the prefix and the extension.
TokensOf(path) ==
    LET base == Basename(path)
    IN  Split(SubSeq(base, Len(DRAMSys_) + 1, Len(base) - Len(DotTdb)),
              "_")

\* C6 as stated: for every name that follows the convention the tier is
\* the first two tokens joined by "_", the configuration id is the number
\* of the id<N> token, the simulation id is the text between prefix and
\* extension, and the channel is the number of the trailing ch<N> token.
C6_ConventionalNameParsed ==
    prog = "parse_filename" /\ pc = "done"
        /\ StartsWith(Basename(arg), DRAMSys_)
        /\ EndsWith(Basename(arg), DotTdb)
        /\ Conventional(TokensOf(arg)) =>
            LET tokens == TokensOf(arg)
            IN  /\ ret[1] = StrV(tokens[1] \o <<"_">> \o tokens[2])
                /\ ret[2] = IntV(DecimalValue(DropFirst(tokens[3], 2)))
                /\ ret[3] = StrV(Text(tokens))
                /\ ret[4] = IntV(DecimalValue(
                               DropFirst(tokens[Len(tokens)], 2)))

\* C9 as stated: get_numeric_agg never raises; it returns (None, None) for
\* a table that does not exist or has no columns, and otherwise the average
\* and the maximum of the last declared column over all rows.
C9_LastColumnAggregates ==
    prog = "get_numeric_agg" /\ pc = "done" =>
        LET table == TableOf(arg.conn, arg.table_name)
            last == [r \in 1..Len(table.rows) |->
                        table.rows[r][Len(table.cols)]]
            values == SelectSeq(last, LAMBDA x : ~IsNone(x))
        IN  /\ ret.exc = ""
            /\ ret.val = IF table.cols = <<>> THEN <<None, None>>
                         ELSE <<SqlAvg(values), SqlMax(values)>>

=============================================================================
